---- MODULE Spec2Model ----
(***************************************************************************)
(* Quantization codec of examples/StructureCompression.ipynb:              *)
(* discretize_to_bits / decode_from_bits and the NaiveCompressor built on  *)
(* them.                                                                   *)
(*                                                                         *)
(* Numbers.  The notebook computes in float64.  Here a float is an exact   *)
(* rational [num, den] (den > 0) over an integer grid, so the rounding of  *)
(* np.round and the affine maps are computed exactly; float64 rounding     *)
(* error (a few ulp) is not represented.  A division by zero gives numpy's *)
(* inf/nan, kind "nonfinite".  astype(np.int32) keeps its 32-bit width: a  *)
(* rounded value outside [INT32_MIN, INT32_MAX], or a non-finite one, has  *)
(* no defined int32 image and the action picks one of CastUndefined.       *)
(***************************************************************************)
EXTENDS Integers, Sequences, FiniteSets, TLC

VARIABLES pc, bit_conf, val, discretized, decoded, rediscretized,
          cpc, config, internal_coords, compressed, decompressed

vars == <<pc, bit_conf, val, discretized, decoded, rediscretized,
          cpc, config, internal_coords, compressed, decompressed>>

qvars == <<pc, bit_conf, val, discretized, decoded, rediscretized>>

cvars == <<cpc, config, internal_coords, compressed, decompressed>>

(***************************** bounds **************************************)
\* largest bit width of a configuration dict
MaxBits == 3

\* min_val and max_val range over -MaxVal .. MaxVal
MaxVal == 2

\* in-grid inputs range over -(MaxVal + Slack) .. MaxVal + Slack
Slack == 2

\* decode_from_bits is followed only for codes of magnitude <= MaxCode
MaxCode == 64

\* an outlier input far outside every range of the model
Huge == 2000000000

INT32_MAX == 2147483647

INT32_MIN == (-INT32_MAX) - 1

\* what a float -> int32 cast can leave when the value has no int32 image
CastUndefined == {INT32_MIN, INT32_MAX}

Abs(x) == IF x < 0 THEN -x ELSE x

Rat(n, d) == [num |-> n, den |-> d]

(************************* discretize / decode *****************************)
\* variant: the signed maximum without its - 1
max_int_val_no_minus_one(bits, signed) == IF signed THEN 2 ^ (bits - 1) ELSE (2 ^ bits) - 1

\* integer range of a code
max_int_val(bits, signed) == IF signed THEN (2 ^ (bits - 1)) - 1 ELSE (2 ^ bits) - 1

\* variant: a symmetric signed range, [-(2^(bits-1) - 1), 2^(bits-1) - 1]
min_int_val_symmetric(bits, signed) == IF signed THEN -(2 ^ (bits - 1)) + 1 ELSE 0

min_int_val(bits, signed) == IF signed THEN -(2 ^ (bits - 1)) ELSE 0

\* variant: truncation instead of rounding
np_round_floor(p, q) == p \div q

\* variant: ties rounded up instead of to the even integer
np_round_half_up(p, q) == (2 * p + q) \div (2 * q)

\* np.round of the rational p/q, q > 0: nearest integer, ties to the even one
np_round(p, q) ==
    LET f == p \div q
        r == p - f * q
    IN  IF 2 * r < q THEN f
        ELSE IF 2 * r > q THEN f + 1
        ELSE IF f % 2 = 0 THEN f ELSE f + 1

\* .astype(np.int32) of the integer q*n + k (n >= 0), decided without
\* forming the product when it does not fit 32 bits
astype_int32(q, n, k) ==
    IF n = 0 THEN [kind |-> "ok", val |-> k]
    ELSE LET kq == k \div n
             kr == k - kq * n
             Q  == q + kq
             fits == IF Q >= 0
                     THEN Q <= (INT32_MAX - kr) \div n
                     ELSE (-Q) - 1 <= (INT32_MAX - (n - kr - 1)) \div n
         IN  IF fits THEN [kind |-> "ok", val |-> Q * n + kr]
             ELSE [kind |-> "overflow", val |-> 0]

\* discretize_to_bits(arr, bits, max_val, min_val, signed) for one element.
\* normalized = a/D ; scaled = normalized*(max_int-min_int) + min_int.
\* With a = qa*D + ra the scaled value is (qa*N + min_int) + ra*N/D: the
\* integer part is kept as the pair (qa, N) so that an outlier is rounded
\* exactly although qa*N itself may exceed 32 bits.
discretize_to_bits(arr, bits, max_val, min_val, signed) ==
    LET maxi == max_int_val(bits, signed)
        mini == min_int_val(bits, signed)
        N    == maxi - mini
        R    == max_val - min_val
        sg   == IF R < 0 THEN -1 ELSE 1
        a    == sg * (arr.num - min_val * arr.den)
        D    == sg * arr.den * R
    IN  IF R = 0 THEN [kind |-> "nonfinite", val |-> 0]
        ELSE LET qa  == a \div D
                 ra  == a - qa * D
                 par == ((qa % 2) * (N % 2) + mini) % 2
                 low == np_round(par * D + ra * N, D)
             IN  astype_int32(qa, N, (mini - par) + low)

\* variant: the code range taken as 2^bits values wide
decode_from_bits_pow2(arr, bits, max_val, min_val, signed) ==
    LET mini == min_int_val(bits, signed)
        N    == 2 ^ bits
    IN  [kind |-> "ok",
         num  |-> (arr - mini) * (max_val - min_val) + min_val * N,
         den  |-> N]

\* decode_from_bits(arr, bits, max_val, min_val, signed) for one code
decode_from_bits(arr, bits, max_val, min_val, signed) ==
    LET maxi == max_int_val(bits, signed)
        mini == min_int_val(bits, signed)
        N    == maxi - mini
    IN  IF N = 0 THEN [kind |-> "nonfinite", num |-> 0, den |-> 1]
        ELSE [kind |-> "ok",
              num  |-> (arr - mini) * (max_val - min_val) + min_val * N,
              den  |-> N]

discretize_conf(arr, c) == discretize_to_bits(arr, c.bits, c.max_val, c.min_val, c.signed)

decode_conf(arr, c) == decode_from_bits(arr, c.bits, c.max_val, c.min_val, c.signed)

(************************* quantizer pipeline ******************************)
\* the keyword dicts a caller can write; bits = 0 is taken unsigned only
\* (2 ** -1 is the float 0.5, outside the integer grid)
BitConfs ==
    { [bits |-> b, min_val |-> lo, max_val |-> hi, signed |-> s] :
        b \in 0..MaxBits, lo \in -MaxVal..MaxVal, hi \in -MaxVal..MaxVal,
        s \in BOOLEAN } \ { c \in [bits : {0}, min_val : -MaxVal..MaxVal,
                                   max_val : -MaxVal..MaxVal, signed : {TRUE}] : TRUE }

Inputs == (-(MaxVal + Slack) .. (MaxVal + Slack)) \cup {Huge, -Huge}

NoCode == [kind |-> "none", val |-> 0]

NoFloat == [kind |-> "none", num |-> 0, den |-> 1]

NoConf == [bits |-> 1, min_val |-> 0, max_val |-> 1, signed |-> FALSE]

InitQ ==
    /\ pc = "start"
    /\ bit_conf = NoConf
    /\ val = Rat(0, 1)
    /\ discretized = NoCode
    /\ decoded = NoFloat
    /\ rediscretized = NoCode

\* the int32 stored for a cast result r
Stored(r, c) == IF r.kind = "ok" THEN c = r.val ELSE c \in CastUndefined

\* bit_conf = {...}: a dict literal, built without any check
MakeBitConf(c) ==
    /\ pc = "start"
    /\ bit_conf' = c
    /\ pc' = "conf"
    /\ UNCHANGED <<val, discretized, decoded, rediscretized, cvars>>

\* discretize_to_bits(np.array([val]), **bit_conf)
Discretize(v) ==
    /\ pc = "conf"
    /\ val' = Rat(v, 1)
    /\ LET r == discretize_conf(Rat(v, 1), bit_conf)
       IN  \E c \in CastUndefined \cup {r.val} :
              /\ Stored(r, c)
              /\ discretized' = [kind |-> r.kind, val |-> c]
    /\ pc' = "discretized"
    /\ UNCHANGED <<bit_conf, decoded, rediscretized, cvars>>

\* decode_from_bits(<the code>, **bit_conf)
Decode ==
    /\ pc = "discretized"
    /\ discretized.kind = "ok"
    /\ Abs(discretized.val) <= MaxCode
    /\ decoded' = decode_conf(discretized.val, bit_conf)
    /\ pc' = "decoded"
    /\ UNCHANGED <<bit_conf, val, discretized, rediscretized, cvars>>

\* discretize_to_bits(<the decoded value>, **bit_conf)
Rediscretize ==
    /\ pc = "decoded"
    /\ decoded.kind = "ok"
    /\ LET r == discretize_conf(Rat(decoded.num, decoded.den), bit_conf)
       IN  \E c \in CastUndefined \cup {r.val} :
              /\ Stored(r, c)
              /\ rediscretized' = [kind |-> r.kind, val |-> c]
    /\ pc' = "rediscretized"
    /\ UNCHANGED <<bit_conf, val, discretized, decoded, cvars>>

\* next iteration of the scenario loop
NextConf ==
    /\ pc \in {"discretized", "decoded", "rediscretized"}
    /\ pc' = "start"
    /\ bit_conf' = NoConf
    /\ val' = Rat(0, 1)
    /\ discretized' = NoCode
    /\ decoded' = NoFloat
    /\ rediscretized' = NoCode
    /\ UNCHANGED cvars

(****************************** compressor *********************************)
\* idealised values, lengths in units of 0.01 and angles in units of 0.005
BACKBONE_BOND_LENGTHS == <<133, 146, 152>>

BACKBONE_ANGLES == <<219, 196, 240>>

NoOffset == <<0, 0, 0>>

Keys == {"lengths", "angles", "dihedrals"}

\* the spec dicts a compressor config is built from in the model
ConfA == [bits |-> MaxBits - 1, min_val |-> -MaxVal, max_val |-> MaxVal, signed |-> TRUE]

ConfB == [bits |-> MaxBits, min_val |-> -1, max_val |-> MaxVal, signed |-> FALSE]

\* every dict over a subset of the three keys
Configs ==
    UNION { [ks -> {ConfA, ConfB}] : ks \in SUBSET Keys }

\* deviations of one residue's three values from the offset
RowDevs == { <<0, 1, -1>>, <<MaxVal, -MaxVal, MaxVal + 1>> }

\* number of residues of an array
MaxResidues == 2

Rows(offset) == { [j \in 1..3 |-> offset[j] + d[j]] : d \in RowDevs }

Arrays(offset) == UNION { [1..n -> Rows(offset)] : n \in 0..MaxResidues }

\* discretize_to_bits(arr - offset, **conf) over an (n, 3) array; the
\* offset row is broadcast over the residues
discretize_array(arr, offset, conf) ==
    [i \in 1..Len(arr) |->
        [j \in 1..3 |-> discretize_conf(Rat(arr[i][j] - offset[j], 1), conf).val]]

\* decode_from_bits(arr, **conf) + offset over an (n, 3) array
decode_array(arr, offset, conf) ==
    [i \in 1..Len(arr) |->
        [j \in 1..3 |->
            LET d == decode_conf(arr[i][j], conf)
            IN  Rat(d.num + offset[j] * d.den, d.den)]]

\* NaiveCompressor.compress, past the three config lookups
compress(cfg, coords) ==
    << discretize_array(coords[1], BACKBONE_BOND_LENGTHS, cfg["lengths"]),
       discretize_array(coords[2], BACKBONE_ANGLES, cfg["angles"]),
       discretize_array(coords[3], NoOffset, cfg["dihedrals"]) >>

\* variant: the idealised values are not added back
decompress_no_offset(cfg, comp) ==
    << decode_array(comp[1], NoOffset, cfg["lengths"]),
       decode_array(comp[2], NoOffset, cfg["angles"]),
       decode_array(comp[3], NoOffset, cfg["dihedrals"]) >>

\* NaiveCompressor.decompress
decompress(cfg, comp) ==
    << decode_array(comp[1], BACKBONE_BOND_LENGTHS, cfg["lengths"]),
       decode_array(comp[2], BACKBONE_ANGLES, cfg["angles"]),
       decode_array(comp[3], NoOffset, cfg["dihedrals"]) >>

InitIdleC ==
    /\ cpc = "start"
    /\ config = << >>
    /\ internal_coords = << >>
    /\ compressed = << >>
    /\ decompressed = << >>

\* compressor = compressor(config): Compressor.__init__ stores the dict
Construct(cfg) ==
    /\ cpc = "start"
    /\ config' = cfg
    /\ cpc' = "constructed"
    /\ UNCHANGED <<internal_coords, compressed, decompressed, qvars>>

\* compressor.compress(internals): a missing key raises KeyError at the
\* lookup, before anything is quantized
Compress(coords) ==
    /\ cpc = "constructed"
    /\ internal_coords' = coords
    /\ IF Keys \subseteq DOMAIN config
       THEN /\ compressed' = compress(config, coords)
            /\ cpc' = "compressed"
       ELSE /\ compressed' = << >>
            /\ cpc' = "KeyError"
    /\ UNCHANGED <<config, decompressed, qvars>>

\* compressor.decompress(compressed_internals)
Decompress ==
    /\ cpc = "compressed"
    /\ decompressed' = decompress(config, compressed)
    /\ cpc' = "decompressed"
    /\ UNCHANGED <<config, internal_coords, compressed, qvars>>

\* reconstruction and RMSD are external; the loop goes to the next file
NextStructure ==
    /\ cpc = "decompressed"
    /\ cpc' = "constructed"
    /\ internal_coords' = << >>
    /\ compressed' = << >>
    /\ decompressed' = << >>
    /\ UNCHANGED <<config, qvars>>

Init == InitQ /\ InitIdleC

Next ==
    \/ \E c \in BitConfs : MakeBitConf(c)
    \/ \E v \in Inputs : Discretize(v)
    \/ Decode
    \/ Rediscretize
    \/ NextConf

Spec == Init /\ [][Next]_vars

NextC ==
    \/ \E cfg \in Configs : Construct(cfg)
    \/ \E coords \in Arrays(BACKBONE_BOND_LENGTHS) \X Arrays(BACKBONE_ANGLES) \X Arrays(NoOffset) :
          Compress(coords)
    \/ Decompress
    \/ NextStructure

SpecC == Init /\ [][NextC]_vars

\* every cast of a compressor run of the model has an int32 image
ArrayCastsDefined(arr, offset, conf) ==
    \A i \in 1..Len(arr) : \A j \in 1..3 :
        discretize_conf(Rat(arr[i][j] - offset[j], 1), conf).kind = "ok"

CompressCastsDefined ==
    (cpc = "compressed") =>
        /\ ArrayCastsDefined(internal_coords[1], BACKBONE_BOND_LENGTHS, config["lengths"])
        /\ ArrayCastsDefined(internal_coords[2], BACKBONE_ANGLES, config["angles"])
        /\ ArrayCastsDefined(internal_coords[3], NoOffset, config["dihedrals"])

TypeOK ==
    /\ pc \in {"start", "conf", "discretized", "decoded", "rediscretized"}
    /\ cpc \in {"start", "constructed", "compressed", "decompressed", "KeyError"}

(******************************* properties ********************************)
\* a valid QuantizationSpec: bits >= 1 and min_val < max_val
ValidSpec(c) == c.bits >= 1 /\ c.min_val < c.max_val

\* min_val <= v <= max_val for a rational v
InRange(v, c) == c.min_val * v.den <= v.num /\ v.num <= c.max_val * v.den

\* |x - y| <= (max_val - min_val) / (2 * (2^bits - 1)) for rationals x, y
WithinHalfStep(x, y, c) ==
    2 * ((2 ^ c.bits) - 1) * Abs(x.num * y.den - y.num * x.den)
        <= (c.max_val - c.min_val) * x.den * y.den

\* the code range as the specification states it
SpecMinInt(c) == IF c.signed THEN -(2 ^ (c.bits - 1)) ELSE 0

SpecMaxInt(c) == IF c.signed THEN (2 ^ (c.bits - 1)) - 1 ELSE (2 ^ c.bits) - 1

Called == pc \in {"discretized", "decoded", "rediscretized"}

Decoded == pc \in {"decoded", "rediscretized"}

\* the scaled value of the state's input is ScaledInt + ScaledFrac/ScaledDen
\* with 0 <= ScaledFrac < ScaledDen (max_val # min_val)
ScaledDen == Abs(bit_conf.max_val - bit_conf.min_val) * val.den

ShiftedNum ==
    LET sg == IF bit_conf.max_val < bit_conf.min_val THEN -1 ELSE 1
    IN  sg * (val.num - bit_conf.min_val * val.den)

ScaledFrac == ((ShiftedNum % ScaledDen) * ((2 ^ bit_conf.bits) - 1)) % ScaledDen

FloorScaled ==
    (ShiftedNum \div ScaledDen) * ((2 ^ bit_conf.bits) - 1)
      + ((ShiftedNum % ScaledDen) * ((2 ^ bit_conf.bits) - 1)) \div ScaledDen
      + SpecMinInt(bit_conf)

\* the scaled value lies exactly halfway between two integers
IsTie ==
    /\ bit_conf.max_val # bit_conf.min_val
    /\ 2 * ScaledFrac = ScaledDen

C8_Idempotent ==
    (pc = "rediscretized" /\ ValidSpec(bit_conf)) => rediscretized = discretized

C8_Witness ==
    /\ pc = "rediscretized"
    /\ ValidSpec(bit_conf)
    /\ ~InRange(val, bit_conf)
    /\ decoded.num # val.num * decoded.den
    /\ rediscretized.kind = "ok"
    /\ rediscretized.val > SpecMaxInt(bit_conf)

\* C9 as claimed: at an exact tie the returned code is the one farther from
\* zero.
C9_TiesAwayFromZero ==
    (Called /\ ValidSpec(bit_conf) /\ IsTie /\ discretized.kind = "ok") =>
        discretized.val = IF FloorScaled >= 0 THEN FloorScaled + 1 ELSE FloorScaled

\* C9 as amended: at an exact tie the returned code is the even one of the two
\* neighbouring integers, for positive and negative scaled values.
C9_TiesToEven ==
    (Called /\ IsTie /\ discretized.kind = "ok") =>
        /\ discretized.val \in {FloorScaled, FloorScaled + 1}
        /\ discretized.val % 2 = 0

\* a negative tie whose even neighbour is the one nearer to zero
C9_Witness ==
    /\ Called
    /\ IsTie
    /\ discretized.kind = "ok"
    /\ FloorScaled < 0
    /\ discretized.val = FloorScaled + 1
    /\ discretized.val % 2 = 0

\* the state's spec with the other signedness, and the code it gives
OtherConf == [bit_conf EXCEPT !.signed = ~bit_conf.signed]

SignedCode == IF bit_conf.signed THEN discretized ELSE discretize_conf(val, OtherConf)

UnsignedCode == IF bit_conf.signed THEN discretize_conf(val, OtherConf) ELSE discretized

SignedConf == [bit_conf EXCEPT !.signed = TRUE]

UnsignedConf == [bit_conf EXCEPT !.signed = FALSE]

\* signed code = unsigned code - 2^(bits-1), and both decode to one value
SignednessAgrees ==
    /\ SignedCode.val = UnsignedCode.val - 2 ^ (bit_conf.bits - 1)
    /\ (Abs(UnsignedCode.val) <= MaxCode) =>
          decode_conf(SignedCode.val, SignedConf) = decode_conf(UnsignedCode.val, UnsignedConf)

BothCodesDefined == SignedCode.kind = "ok" /\ UnsignedCode.kind = "ok"

C3_OutOfRangeGuarded ==
    (Called /\ ValidSpec(bit_conf) /\ ~InRange(val, bit_conf)) =>
        /\ discretized.kind = "ok"
        /\ SpecMinInt(bit_conf) <= discretized.val
        /\ discretized.val <= SpecMaxInt(bit_conf)

\* C4: a spec with bits < 1 or max_val <= min_val is rejected when it is
\* built, so no discretize/decode call runs with it and no division by zero
\* or non-finite result occurs at use time.
C4_InvalidSpecRejected ==
    /\ Called => ValidSpec(bit_conf)
    /\ discretized.kind # "nonfinite"
    /\ decoded.kind # "nonfinite"
    /\ rediscretized.kind # "nonfinite"

AllIn(c, x, offset) ==
    \A i \in 1..Len(x) : \A j \in 1..3 : InRange(Rat(x[i][j] - offset[j], 1), c)

ArrayWithin(c, x, y) ==
    /\ Len(y) = Len(x)
    /\ \A i \in 1..Len(x) : \A j \in 1..3 : WithinHalfStep(y[i][j], Rat(x[i][j], 1), c)

C5_MissingConfigRejected ==
    /\ (cpc \in {"constructed", "compressed", "decompressed"}) => Keys \subseteq DOMAIN config
    /\ cpc # "KeyError"

\* C6: compress of coordinate arrays of differing residue counts fails with
\* a shape error and returns no result.
C6_ShapeMismatchRejected ==
    (cpc \in {"compressed", "decompressed"}) =>
        /\ Len(internal_coords[1]) = Len(internal_coords[2])
        /\ Len(internal_coords[2]) = Len(internal_coords[3])
====
